---- MODULE Spec2Model ----
(***************************************************************************)
(* Model of src/conso.py: the Streamlit script that consolidates uploaded  *)
(* CSV/Excel files (file mode) or selected workbook sheets (sheet mode).   *)
(* Every widget interaction reruns the whole script; the only state that   *)
(* survives a rerun is st.session_state.selected_sheets and the widgets'   *)
(* own values.                                                             *)
(***************************************************************************)
EXTENDS Integers, Sequences, FiniteSets, TLC

VARIABLES file_type, consolidation_type, uploaded_files, search_term,
          selected_sheets, manual, pc, i, j, clicked,
          consolidated_data, messages, mapped_sheets, loaded, display

vars == <<file_type, consolidation_type, uploaded_files, search_term,
          selected_sheets, manual, pc, i, j, clicked,
          consolidated_data, messages, mapped_sheets, loaded, display>>

\* ---------------------------------------------------------------- bounds
\* longest list of files the uploader holds in one run
MaxFiles == 2
\* longest list the user sets a multiselect to in one interaction
MaxPick == 1
\* longest list kept under one file name in selected_sheets
MaxSel == 2

\* ------------------------------------------------------- sequence helpers
Range(s) == {s[k] : k \in 1..Len(s)}

NoDup(s) == \A a, b \in 1..Len(s) : a # b => s[a] # s[b]

IsPrefix(s, t) == Len(s) <= Len(t) /\ \A k \in 1..Len(s) : s[k] = t[k]

RECURSIVE SelectNotIn(_, _)
\* the elements of s, in order, that are not in the set S
SelectNotIn(s, S) ==
    IF s = <<>> THEN <<>>
    ELSE IF Head(s) \in S THEN SelectNotIn(Tail(s), S)
         ELSE <<Head(s)>> \o SelectNotIn(Tail(s), S)

\* the sequences of distinct elements of S of length at most n
DistinctSeqs(S, n) ==
    UNION {{s \in [1..k -> S] : NoDup(s)} : k \in 0..n}

\* ------------------------------------------------------------- strings
\* The characters of the sheet names and search terms of the model.
Chars(s) ==
    CASE s = ""   -> <<>>
      [] s = "c"  -> <<"c">>
      [] s = "C"  -> <<"C">>
      [] s = "aB" -> <<"a", "B">>
      [] s = "Ab" -> <<"A", "b">>

\* str.lower() on one character
LowerChar(c) ==
    CASE c = "A" -> "a"
      [] c = "B" -> "b"
      [] c = "C" -> "c"
      [] OTHER   -> c

\* str.lower()
Lower(cs) == [k \in 1..Len(cs) |-> LowerChar(cs[k])]

\* Python's `needle in hay` on strings: a contiguous occurrence
Contains(hay, needle) ==
    \E off \in 0..(Len(hay) - Len(needle)) :
        \A k \in 1..Len(needle) : hay[off + k] = needle[k]

\* search_term.lower() in sheet.lower()
Matches(term, sheet) == Contains(Lower(Chars(sheet)), Lower(Chars(term)))

\* --------------------------------------------------------- uploaded files
NULL == "<NA>"

\* The files a user may upload: name, format of the content, whether the
\* file as a whole can be opened, and its tables (one per sheet; a CSV has
\* one). fail is "none", "ValueError" or "Exception": what reading raises.
FileData ==
    [n \in {"f1.csv", "f2.csv", "bad.csv", "w1.xlsx", "w2.xlsx", "bad.xlsx"} |->
      CASE n = "f1.csv" ->
             [fmt |-> "csv", fail |-> "none",
              sheets |-> << [sname |-> "", fail |-> "none",
                             cols |-> <<"X", "Y">>, nrows |-> 2] >>]
        [] n = "f2.csv" ->
             [fmt |-> "csv", fail |-> "none",
              sheets |-> << [sname |-> "", fail |-> "none",
                             cols |-> <<"X", "Z">>, nrows |-> 1] >>]
        [] n = "bad.csv" ->
             [fmt |-> "csv", fail |-> "ValueError", sheets |-> <<>>]
        [] n = "w1.xlsx" ->
             [fmt |-> "excel", fail |-> "none",
              sheets |-> << [sname |-> "c", fail |-> "ValueError",
                             cols |-> <<>>, nrows |-> 0],
                            [sname |-> "aB", fail |-> "none",
                             cols |-> <<"Filename", "X">>, nrows |-> 1] >>]
        [] n = "w2.xlsx" ->
             [fmt |-> "excel", fail |-> "none",
              sheets |-> << [sname |-> "Ab", fail |-> "none",
                             cols |-> <<"Sheet Name", "Z">>, nrows |-> 2] >>]
        [] n = "bad.xlsx" ->
             [fmt |-> "excel", fail |-> "Exception", sheets |-> <<>>] ]

FileNames == DOMAIN FileData

\* st.file_uploader(type=["xlsx","csv"] if file_type == 'csv' else ["xlsx"])
Uploadable(ft) ==
    IF ft = "csv" THEN FileNames
    ELSE {n \in FileNames : FileData[n].fmt = "excel"}

\* pd.ExcelFile(file).sheet_names
sheet_names(n) ==
    [k \in 1..Len(FileData[n].sheets) |-> FileData[n].sheets[k].sname]

\* whether pd.ExcelFile(file) raises
ExcelFileRaises(n) == FileData[n].fmt # "excel" \/ FileData[n].fail # "none"

\* ------------------------------------------------------------ DataFrame
\* A DataFrame: its column labels in order and its rows. A row is its cells
\* by column label, plus src, the (file, sheet, row number) it was read
\* from; src is not data of the frame, the code never reads it.
EmptyFrame == [columns |-> <<>>, rows |-> <<>>]

\* the value a source table holds in column c
SourceCell(c) == IF c \in {"Filename", "Sheet Name"} THEN "old" ELSE "v"

\* the table of sheet number k of file n as the reader returns it
ReadTable(n, k) ==
    LET sh == FileData[n].sheets[k] IN
    [columns |-> sh.cols,
     rows |-> [r \in 1..sh.nrows |->
                 [cells |-> [c \in Range(sh.cols) |-> SourceCell(c)],
                  src |-> <<n, sh.sname, r>>]]]

\* pd.read_csv(uploaded_file): err is "none" or the kind of exception
read_csv(n) ==
    LET f == FileData[n] IN
    IF f.fmt # "csv" THEN [err |-> "ValueError", df |-> EmptyFrame]
    ELSE IF f.fail # "none" THEN [err |-> f.fail, df |-> EmptyFrame]
    ELSE [err |-> "none", df |-> ReadTable(n, 1)]

\* pd.read_excel(uploaded_file, engine='openpyxl'): the first sheet
read_excel(n) ==
    LET f == FileData[n] IN
    IF f.fmt # "excel" THEN [err |-> "Exception", df |-> EmptyFrame]
    ELSE IF f.fail # "none" THEN [err |-> f.fail, df |-> EmptyFrame]
    ELSE IF f.sheets[1].fail # "none"
         THEN [err |-> f.sheets[1].fail, df |-> EmptyFrame]
    ELSE [err |-> "none", df |-> ReadTable(n, 1)]

\* pd.read_excel(uploaded_file, sheet_name=sheet)
read_excel_sheet(n, sheet) ==
    LET f == FileData[n]
        ks == {k \in 1..Len(f.sheets) : f.sheets[k].sname = sheet}
    IN
    IF f.fmt # "excel" THEN [err |-> "Exception", df |-> EmptyFrame]
    ELSE IF f.fail # "none" THEN [err |-> f.fail, df |-> EmptyFrame]
    ELSE IF ks = {} THEN [err |-> "ValueError", df |-> EmptyFrame]
    ELSE LET k == CHOOSE k \in ks : TRUE IN
         IF f.sheets[k].fail # "none"
         THEN [err |-> f.sheets[k].fail, df |-> EmptyFrame]
         ELSE [err |-> "none", df |-> ReadTable(n, k)]

\* SetColumn with a column of that name in the source table left as it is
SetColumn_KeepExisting(df, col, val) ==
    IF col \in Range(df.columns) THEN df
    ELSE [columns |-> Append(df.columns, col),
          rows |-> [r \in 1..Len(df.rows) |->
                      [cells |-> [c \in Range(df.columns) \cup {col} |->
                                    IF c = col THEN val
                                    ELSE df.rows[r].cells[c]],
                       src |-> df.rows[r].src]]]

\* df[col] = val with a scalar: an existing column is overwritten in
\* place, a new one is added after the last column
SetColumn(df, col, val) ==
    LET cols == IF col \in Range(df.columns) THEN df.columns
                ELSE Append(df.columns, col)
    IN
    [columns |-> cols,
     rows |-> [r \in 1..Len(df.rows) |->
                 [cells |-> [c \in Range(cols) |->
                               IF c = col THEN val ELSE df.rows[r].cells[c]],
                  src |-> df.rows[r].src]]]

\* the row widened to the column set C, absent cells null
Widen(row, C) ==
    [cells |-> [c \in C |-> IF c \in DOMAIN row.cells THEN row.cells[c]
                            ELSE NULL],
     src |-> row.src]

\* Concat with the columns of the appended table first
Concat_RightFirst(a, b) ==
    LET cols == b.columns \o SelectNotIn(a.columns, Range(b.columns))
        C == Range(cols)
    IN
    [columns |-> cols,
     rows |-> [r \in 1..Len(a.rows) |-> Widen(a.rows[r], C)]
              \o [r \in 1..Len(b.rows) |-> Widen(b.rows[r], C)]]

\* Concat with the columns first seen in the appended table put in front
Concat_NewFirst(a, b) ==
    LET cols == SelectNotIn(b.columns, Range(a.columns)) \o a.columns
        C == Range(cols)
    IN
    [columns |-> cols,
     rows |-> [r \in 1..Len(a.rows) |-> Widen(a.rows[r], C)]
              \o [r \in 1..Len(b.rows) |-> Widen(b.rows[r], C)]]

\* pd.concat([a, b], ignore_index=True): outer join of the columns in
\* order of first appearance, rows of a then rows of b
Concat(a, b) ==
    LET cols == a.columns \o SelectNotIn(b.columns, Range(a.columns))
        C == Range(cols)
    IN
    [columns |-> cols,
     rows |-> [r \in 1..Len(a.rows) |-> Widen(a.rows[r], C)]
              \o [r \in 1..Len(b.rows) |-> Widen(b.rows[r], C)]]

\* DataFrame.empty
IsEmpty(df) == Len(df.rows) = 0 \/ Len(df.columns) = 0

\* ------------------------------------------------------------- dict helpers
\* dict.get(n, [])
Get(d, n) == IF n \in DOMAIN d THEN d[n] ELSE <<>>

\* d[n] = v
Put(d, n, v) == [x \in (DOMAIN d) \cup {n} |-> IF x = n THEN v ELSE d[x]]

\* ------------------------------------------------------- sheet selection
\* st.multiselect(options=sheet_names, default=...): the list the user set
\* the widget to in this rerun, else the default
multiselect(default, touched, picks) == IF touched THEN picks ELSE default

\* [sheet for sheet in sheet_names if search_term.lower() in sheet.lower()]
filtered_sheets(n, term) ==
    SelectSeq(sheet_names(n), LAMBDA s : Matches(term, s))

RECURSIVE SheetLoop(_, _, _, _, _, _, _)
\* the loop over uploaded_files that lists each workbook's sheets, stores
\* the multiselect's value and collects the sheets matching the term; it
\* stops where pd.ExcelFile raises. touched is the file whose multiselect
\* the user has just set to picks ("" for none).
SheetLoop(files, k, sel, gms, term, touched, picks) ==
    IF k > Len(files) THEN [raised |-> FALSE, sel |-> sel, gms |-> gms]
    ELSE LET n == files[k] IN
         IF ExcelFileRaises(n) THEN [raised |-> TRUE, sel |-> sel, gms |-> gms]
         ELSE LET value == multiselect(Get(sel, n), touched = n, picks)
                  fs == filtered_sheets(n, term)
              IN SheetLoop(files, k + 1, Put(sel, n, value),
                           gms \o [x \in 1..Len(fs) |-> <<n, fs[x]>>],
                           term, touched, picks)

RECURSIVE AppendMatches(_, _)
\* for filename, sheet_name in global_matching_sheets:
\*     selected_sheets[filename].append(sheet_name)
AppendMatches(sel, gms) ==
    IF gms = <<>> THEN sel
    ELSE LET fn == Head(gms)[1]
             sh == Head(gms)[2]
         IN AppendMatches(Put(sel, fn, Append(Get(sel, fn), sh)), Tail(gms))

\* the automatic selection, gated on a non-empty term with matches
AutoSelect(sel, gms, term) ==
    IF term # "" /\ gms # <<>> THEN AppendMatches(sel, gms) ELSE sel

\* {file.name: selected_sheets[file.name] for file in uploaded_files
\*  if selected_sheets.get(file.name)}
MappedSheets(files, sel) ==
    [n \in {m \in Range(files) : Get(sel, m) # <<>>} |-> sel[n]]

\* the sheet-mode flow up to the call of consolidate_sheets
Resolve(files, sel, term, touched, picks) ==
    LET r == SheetLoop(files, 1, sel, <<>>, term, touched, picks) IN
    IF r.raised THEN [raised |-> TRUE, sel |-> r.sel, mapped |-> <<>>]
    ELSE LET s2 == AutoSelect(r.sel, r.gms, term) IN
         [raised |-> FALSE, sel |-> s2, mapped |-> MappedSheets(files, s2)]

\* ---------------------------------------------------------------- state
NoSelection == [n \in {} |-> <<>>]

NoPicks == [n \in FileNames |-> <<>>]

\* the search box is rendered only in the sheet branch of a run with files
SearchRendered(ft, ct, files) ==
    files # <<>> /\ ct = "sheets" /\ ft = "excel"

\* the multiselect of file n was rendered by the last run: the sheet loop
\* reached it, so no file up to and including n made pd.ExcelFile raise
MultiselectRendered(n) ==
    /\ SearchRendered(file_type, consolidation_type, uploaded_files)
    /\ \E k \in 1..Len(uploaded_files) :
          /\ uploaded_files[k] = n
          /\ \A m \in 1..k : ~ExcelFileRaises(uploaded_files[m])

\* the lists a user can set the multiselect of file n to
PickLists(n) == DistinctSeqs(Range(sheet_names(n)), MaxPick)

\* what the user types into the search box
Terms == {"", "aB", "C"}

Init ==
    /\ file_type = "excel"
    /\ consolidation_type = "files"
    /\ uploaded_files = <<>>
    /\ search_term = ""
    /\ selected_sheets = NoSelection
    /\ manual = NoPicks
    /\ pc = "idle"
    /\ i = 1
    /\ j = 1
    /\ clicked = FALSE
    /\ consolidated_data = EmptyFrame
    /\ messages = <<>>
    /\ mapped_sheets = NoSelection
    /\ loaded = <<>>
    /\ display = "none"

\* One rerun of the script from its top down to the call of
\* consolidate_files / consolidate_sheets, with the widgets holding
\* ft, ct, files and term; touched/picks is a multiselect the user has just
\* set, click the Reset Selections button.
Script(ft, ct, files, term, touched, picks, click) ==
    LET r == Resolve(files, selected_sheets, term, touched, picks)
        sheetrun == SearchRendered(ft, ct, files)
    IN
    /\ pc \in {"idle", "raised"}
    /\ sheetrun => \A n \in DOMAIN r.sel : Len(r.sel[n]) <= MaxSel
    /\ file_type' = ft
    /\ consolidation_type' = ct
    /\ uploaded_files' = files
    /\ search_term' = IF sheetrun THEN term ELSE ""
    /\ selected_sheets' = IF sheetrun THEN r.sel ELSE selected_sheets
    /\ manual' = IF touched \in FileNames THEN [manual EXCEPT ![touched] = picks]
                 ELSE manual
    /\ mapped_sheets' = IF sheetrun THEN r.mapped ELSE NoSelection
    /\ pc' = IF files = <<>> THEN "idle"
             ELSE IF ct = "files" THEN "files"
             ELSE IF ft # "excel" THEN "render"
             ELSE IF r.raised THEN "raised"
             ELSE "sheets"
    /\ i' = 1
    /\ j' = 1
    /\ clicked' = click
    /\ consolidated_data' = EmptyFrame
    /\ messages' = <<>>
    /\ loaded' = <<>>
    /\ display' = "none"

\* ------------------------------------------------------- user interactions
\* the file-type selectbox; the uploader's label names the file type, so
\* the uploader is a new, empty widget after the change
SelectFileType(ft) ==
    /\ ft # file_type
    /\ Script(ft, consolidation_type, <<>>, "", "", <<>>, FALSE)

\* the consolidation-type selectbox
SelectConsolidationType(ct) ==
    /\ ct # consolidation_type
    /\ Script(file_type, ct, uploaded_files, "", "", <<>>, FALSE)

\* the uploader's list after a change; a run without files renders no
\* search box, so the box is empty when files come back
Uploaded(files) ==
    Script(file_type, consolidation_type, files,
           IF uploaded_files = <<>> THEN "" ELSE search_term, "", <<>>, FALSE)

\* the file uploader: one more file, after those it holds
AddFile(n) ==
    /\ n \in Uploadable(file_type)
    /\ n \notin Range(uploaded_files)
    /\ Len(uploaded_files) < MaxFiles
    /\ Uploaded(Append(uploaded_files, n))

\* the file uploader: file number k removed
RemoveFile(k) ==
    /\ k \in 1..Len(uploaded_files)
    /\ Uploaded(SubSeq(uploaded_files, 1, k - 1)
                \o SubSeq(uploaded_files, k + 1, Len(uploaded_files)))

\* the search box
Search(term) ==
    /\ SearchRendered(file_type, consolidation_type, uploaded_files)
    /\ term # search_term
    /\ Script(file_type, consolidation_type, uploaded_files, term, "", <<>>, FALSE)

\* the multiselect of file n
Pick(n, picks) ==
    /\ pc = "idle"
    /\ MultiselectRendered(n)
    /\ Script(file_type, consolidation_type, uploaded_files, search_term,
              n, picks, FALSE)

\* the Reset Selections button
ResetSelections ==
    /\ pc = "idle"
    /\ uploaded_files # <<>>
    /\ Script(file_type, consolidation_type, uploaded_files, search_term,
              "", <<>>, TRUE)

\* any other widget (Login, the feedback box, Submit Feedback): the script
\* reruns with every widget of the consolidation section as it was
Rerun ==
    /\ pc \in {"idle", "raised"}
    /\ Script(file_type, consolidation_type, uploaded_files, search_term,
           "", <<>>, FALSE)

\* ------------------------------------------------------------ consolidation
\* the loop left at the first exception, as with the try around the loop
AfterException_Break(k, len) == len + 1

\* both loops catch inside the loop over the files: after an exception on
\* file k the loop goes on with file k + 1
AfterException(k, len) == k + 1

\* one iteration of the loop of consolidate_files
ConsolidateFilesStep ==
    /\ pc = "files"
    /\ i <= Len(uploaded_files)
    /\ LET n == uploaded_files[i]
           r == IF file_type = "csv" THEN read_csv(n) ELSE read_excel(n)
       IN
       IF r.err = "none"
       THEN /\ consolidated_data' =
                 Concat(consolidated_data, SetColumn(r.df, "Filename", n))
            /\ loaded' = Append(loaded, <<n, "", Len(r.df.rows)>>)
            /\ messages' = messages
            /\ i' = i + 1
       ELSE /\ messages' = Append(messages,
                 [text |-> IF r.err = "ValueError" THEN "Error processing"
                           ELSE "Unexpected error with file",
                  file |-> n])
            /\ i' = AfterException(i, Len(uploaded_files))
            /\ UNCHANGED <<consolidated_data, loaded>>
    /\ UNCHANGED <<file_type, consolidation_type, uploaded_files, search_term,
                   selected_sheets, manual, pc, j, clicked, mapped_sheets,
                   display>>

\* return consolidated_data
ConsolidateFilesReturn ==
    /\ pc = "files"
    /\ i > Len(uploaded_files)
    /\ pc' = "render"
    /\ UNCHANGED <<file_type, consolidation_type, uploaded_files, search_term,
                   selected_sheets, manual, i, j, clicked, consolidated_data,
                   messages, mapped_sheets, loaded, display>>

\* one iteration of consolidate_sheets: sheet j of file i, or file i skipped
\* when nothing of it is selected. The try encloses the loop over the
\* file's sheets, so an exception leaves that loop.
ConsolidateSheetsStep ==
    /\ pc = "sheets"
    /\ i <= Len(uploaded_files)
    /\ LET n == uploaded_files[i] IN
       IF n \notin DOMAIN mapped_sheets
       THEN /\ i' = i + 1
            /\ j' = 1
            /\ UNCHANGED <<consolidated_data, loaded, messages>>
       ELSE LET sheet == mapped_sheets[n][j]
                r == read_excel_sheet(n, sheet)
            IN
            IF r.err = "none"
            THEN /\ consolidated_data' =
                      Concat(consolidated_data,
                             SetColumn(SetColumn(r.df, "Filename", n),
                                       "Sheet Name", sheet))
                 /\ loaded' = Append(loaded, <<n, sheet, Len(r.df.rows)>>)
                 /\ messages' = messages
                 /\ IF j < Len(mapped_sheets[n])
                    THEN i' = i /\ j' = j + 1
                    ELSE i' = i + 1 /\ j' = 1
            ELSE /\ messages' = Append(messages,
                      [text |-> IF r.err = "ValueError"
                                THEN "Error processing sheet in"
                                ELSE "Unexpected error with file",
                       file |-> n])
                 /\ i' = AfterException(i, Len(uploaded_files))
                 /\ j' = 1
                 /\ UNCHANGED <<consolidated_data, loaded>>
    /\ UNCHANGED <<file_type, consolidation_type, uploaded_files, search_term,
                   selected_sheets, manual, pc, clicked, mapped_sheets, display>>

\* return consolidated_data
ConsolidateSheetsReturn ==
    /\ pc = "sheets"
    /\ i > Len(uploaded_files)
    /\ pc' = "render"
    /\ UNCHANGED <<file_type, consolidation_type, uploaded_files, search_term,
                   selected_sheets, manual, i, j, clicked, consolidated_data,
                   messages, mapped_sheets, loaded, display>>

\* the rest of the script: the table or the warning, then the Reset
\* Selections button, whose click clears the session's selection
Render ==
    /\ pc = "render"
    /\ display' = IF consolidation_type = "sheets" /\ file_type # "excel"
                  THEN "none"
                  ELSE IF IsEmpty(consolidated_data) THEN "warning"
                  ELSE "table"
    /\ selected_sheets' = IF clicked THEN NoSelection ELSE selected_sheets
    /\ manual' = IF clicked THEN NoPicks ELSE manual
    /\ clicked' = FALSE
    /\ pc' = "idle"
    /\ UNCHANGED <<file_type, consolidation_type, uploaded_files, search_term,
                   i, j, consolidated_data, messages, mapped_sheets, loaded>>

Next ==
    \/ \E ft \in {"excel", "csv"} : SelectFileType(ft)
    \/ \E ct \in {"files", "sheets"} : SelectConsolidationType(ct)
    \/ \E n \in FileNames : AddFile(n)
    \/ \E k \in 1..MaxFiles : RemoveFile(k)
    \/ \E term \in Terms : Search(term)
    \/ \E n \in FileNames : \E picks \in PickLists(n) : Pick(n, picks)
    \/ ResetSelections
    \/ Rerun
    \/ ConsolidateFilesStep
    \/ ConsolidateFilesReturn
    \/ ConsolidateSheetsStep
    \/ ConsolidateSheetsReturn
    \/ Render

Spec == Init /\ [][Next]_vars

\* ------------------------------------------------------------- properties
\* consolidate_files has returned and the table is about to be shown
FilesDone == consolidation_type = "files" /\ pc = "render"

\* the sheet branch of the script is running: the selection has been
\* handed to consolidate_sheets
InSheetRun ==
    /\ consolidation_type = "sheets"
    /\ file_type = "excel"
    /\ uploaded_files # <<>>
    /\ pc \in {"sheets", "render"}

\* whether the reader of the current file type can read file n
Readable(n) ==
    (IF file_type = "csv" THEN read_csv(n) ELSE read_excel(n)).err = "none"

\* the positions of the messages naming file n
MessagesFor(n) == {m \in 1..Len(messages) : messages[m].file = n}

\* the positions of the rows read from file n
RowsFrom(n) ==
    {q \in 1..Len(consolidated_data.rows) : consolidated_data.rows[q].src[1] = n}

\* the number of the sheet a loaded unit <<file, sheet, rows>> was read from
UnitSheet(u) ==
    IF u[2] = "" THEN 1
    ELSE CHOOSE k \in 1..Len(FileData[u[1]].sheets) :
             FileData[u[1]].sheets[k].sname = u[2]

\* the columns of the source table of a loaded unit
UnitColumns(u) == Range(FileData[u[1]].sheets[UnitSheet(u)].cols)

\* the provenance columns of the running mode
Provenance ==
    IF consolidation_type = "sheets" THEN {"Filename", "Sheet Name"}
    ELSE {"Filename"}

RECURSIVE SumRows(_)
SumRows(us) == IF us = <<>> THEN 0 ELSE Head(us)[3] + SumRows(Tail(us))

RECURSIVE UnitRows(_)
\* the origins <<file, sheet, row number>> of the rows of the units, in order
UnitRows(us) ==
    IF us = <<>> THEN <<>>
    ELSE [r \in 1..Head(us)[3] |-> <<Head(us)[1], Head(us)[2], r>>]
         \o UnitRows(Tail(us))

\* the origin of a row as loaded records it (file mode has no sheet name)
Origin(row) ==
    IF consolidation_type = "sheets" THEN row.src
    ELSE <<row.src[1], "", row.src[3]>>

\* C2: in file mode consolidate_files never raises; when it has returned,
\* every row of every readable file is in the table whatever the position
\* of the unreadable files, a readable file has no message, and an
\* unreadable file has exactly one message naming it and no row.
C2_FileFailuresIsolated ==
    /\ consolidation_type = "files" => pc # "raised"
    /\ FilesDone =>
         \A k \in 1..Len(uploaded_files) :
            LET n == uploaded_files[k] IN
            IF Readable(n)
            THEN /\ \A r \in 1..FileData[n].sheets[1].nrows :
                       \E q \in RowsFrom(n) : consolidated_data.rows[q].src[3] = r
                 /\ MessagesFor(n) = {}
            ELSE /\ Cardinality(MessagesFor(n)) = 1
                 /\ RowsFrom(n) = {}

\* C2 witness: an unreadable file came first, a readable one after it
C2_Witness ==
    /\ FilesDone
    /\ Len(uploaded_files) = 2
    /\ ~Readable(uploaded_files[1])
    /\ Readable(uploaded_files[2])
    /\ Len(messages) = 1
    /\ Len(consolidated_data.rows) > 0

\* C5: at every point the table is exactly the tagged concatenation of the
\* units loaded so far: as many rows as the units have, in their order,
\* every row's Filename the name of the file it was read from, and in
\* sheet mode every row's Sheet Name the sheet it was read from.
C5_TaggedConcatenation ==
    LET rows == consolidated_data.rows IN
    /\ Len(rows) = SumRows(loaded)
    /\ [r \in 1..Len(rows) |-> Origin(rows[r])] = UnitRows(loaded)
    /\ \A r \in 1..Len(rows) :
          /\ "Filename" \in DOMAIN rows[r].cells
          /\ rows[r].cells["Filename"] # NULL
          /\ rows[r].cells["Filename"] = rows[r].src[1]
    /\ consolidation_type = "sheets" =>
          \A r \in 1..Len(rows) :
             /\ "Sheet Name" \in DOMAIN rows[r].cells
             /\ rows[r].cells["Sheet Name"] # NULL
             /\ rows[r].cells["Sheet Name"] = rows[r].src[2]

\* C5 witness: a sheet run has loaded a sheet of each of two workbooks,
\* whose tables came with columns named Filename and Sheet Name
C5_Witness ==
    /\ InSheetRun
    /\ pc = "render"
    /\ Len(loaded) = 2
    /\ loaded[1][1] # loaded[2][1]
    /\ Len(consolidated_data.rows) = 3

\* the f1.csv, f2.csv example has been consolidated in file mode
ExampleDone ==
    FilesDone /\ file_type = "csv" /\ uploaded_files = <<"f1.csv", "f2.csv">>

\* the rows and the null cells of the example
ExampleCells ==
    LET rows == consolidated_data.rows IN
    /\ Len(rows) = 3
    /\ \A r \in 1..2 : rows[r].cells["Z"] = NULL /\ rows[r].cells["Y"] # NULL
    /\ rows[3].cells["Y"] = NULL /\ rows[3].cells["Z"] # NULL
    /\ \A r \in 1..3 : rows[r].cells["X"] # NULL

\* C6 as stated: the example yields the columns X, Y, Z, Filename in this
\* order.
C6_ExampleAsStated ==
    ExampleDone =>
        /\ consolidated_data.columns = <<"X", "Y", "Z", "Filename">>
        /\ ExampleCells

\* C6 amended: the example yields 3 rows with the columns X, Y, Filename, Z
\* in this order, Y null in the f2.csv row and Z null in the f1.csv rows.
C6_ExampleColumns ==
    ExampleDone =>
        /\ consolidated_data.columns = <<"X", "Y", "Filename", "Z">>
        /\ ExampleCells
        /\ \A r \in 1..2 : consolidated_data.rows[r].cells["Filename"] = "f1.csv"
        /\ consolidated_data.rows[3].cells["Filename"] = "f2.csv"

\* C6 witness: the example has run
C6_Witness == ExampleDone /\ Len(consolidated_data.rows) = 3

\* the column set is the union of the loaded tables' columns and the
\* provenance columns, and a cell is null exactly where the row's source
\* table has no such column
ColumnsAreUnion ==
    LET cols == Range(consolidated_data.columns)
        rows == consolidated_data.rows
    IN
    /\ NoDup(consolidated_data.columns)
    /\ cols = IF loaded = <<>> THEN {}
              ELSE UNION {UnitColumns(u) : u \in Range(loaded)} \cup Provenance
    /\ \A r \in 1..Len(rows) :
          /\ DOMAIN rows[r].cells = cols
          /\ \A c \in cols :
                (rows[r].cells[c] = NULL) <=>
                (c \notin UnitColumns(<<rows[r].src[1], rows[r].src[2], 0>>)
                          \cup Provenance)

\* C7: every accumulation step of consolidate_files and consolidate_sheets
\* keeps the columns it found as a prefix of the new column list, and leaves
\* the column set the union of the loaded tables' columns and the provenance
\* columns, absent cells null.
C7_ColumnsGrowAtEnd ==
    [][(pc \in {"files", "sheets"} /\ pc' = pc) =>
          /\ IsPrefix(consolidated_data.columns, consolidated_data'.columns)
          /\ ColumnsAreUnion']_vars

\* C7 witness: the second table appended brought a column the first did not
\* have, after the provenance column was already there
C7_Witness ==
    /\ pc \in {"files", "sheets"}
    /\ Len(loaded) = 2
    /\ UnitColumns(loaded[2]) \ (UnitColumns(loaded[1]) \cup Provenance) # {}
    /\ Len(consolidated_data.columns) >
          Cardinality(UnitColumns(loaded[1]) \cup Provenance)

\* the sheets of file n whose name contains the term, case-insensitively
MatchingSheets(n, term) == {s \in Range(sheet_names(n)) : Matches(term, s)}

\* the selection a first run of a fresh session computes from the uploaded
\* files, the user's manual picks and the search term
FirstRun ==
    Resolve(uploaded_files, [n \in Range(uploaded_files) |-> manual[n]],
            search_term, "", <<>>)

\* C1: the selection handed to consolidate_sheets holds each (file, sheet)
\* pair at most once, and no unit is loaded twice in one run.
C1_NoSheetTwice ==
    InSheetRun =>
        /\ \A n \in DOMAIN mapped_sheets : NoDup(mapped_sheets[n])
        /\ NoDup(loaded)

\* C3: when consolidate_sheets has returned, every selected sheet that can
\* be read has been loaded, also one selected after a sheet of the same file
\* that failed, and every file with a failing sheet has a message.
C3_SheetFailuresIsolated ==
    (InSheetRun /\ pc = "render") =>
        \A n \in DOMAIN mapped_sheets :
           \A k \in 1..Len(mapped_sheets[n]) :
              IF read_excel_sheet(n, mapped_sheets[n][k]).err = "none"
              THEN \E u \in Range(loaded) :
                      u[1] = n /\ u[2] = mapped_sheets[n][k]
              ELSE MessagesFor(n) # {}

\* C4: a sheet-mode run over files of which one is not a readable workbook
\* is not aborted by an uncaught exception.
C4_UnreadableWorkbookNoAbort ==
    (/\ consolidation_type = "sheets"
     /\ file_type = "excel"
     /\ \E k \in 1..Len(uploaded_files) : ExcelFileRaises(uploaded_files[k]))
    => pc # "raised"

\* C8: with an empty search term the sheets selected for a file are exactly
\* the ones the user picked by hand; a file without picks has none.
C8_EmptyTermManualOnly ==
    (InSheetRun /\ search_term = "") =>
        \A n \in Range(uploaded_files) :
           Range(Get(mapped_sheets, n)) = Range(manual[n])

\* C9: with a non-empty search term the sheets selected for a file are the
\* union of the user's manual picks and the sheets matching the term.
C9_ManualAndSearchAdditive ==
    (InSheetRun /\ search_term # "") =>
        \A n \in Range(uploaded_files) :
           Range(Get(mapped_sheets, n)) =
              Range(manual[n]) \cup MatchingSheets(n, search_term)

\* C10: a sheet-mode run computes the selection a first run computes from
\* the same uploaded files, manual picks and search term.
C10_RunIsStateless ==
    InSheetRun => mapped_sheets = FirstRun.mapped

====
